---- MODULE Spec2Model ----
(***************************************************************************)
(* Model of the binary-fun round / price simulation and settlement engine: *)
(* ChartService (price feed), GameRound and GameService (round ledger,     *)
(* scheduler, settlement) and Game (session facade and event bus).         *)
(*                                                                         *)
(* Time is the value of Date.now() in milliseconds.  The JavaScript event  *)
(* loop is modelled as a discrete-event simulation: a timer callback runs  *)
(* at the instant it is due, callers act at any instant, and the clock     *)
(* jumps to the next due time when no timer is due.  Prices are kept in cents, the session *)
(* balance and the stakes in whole units.  Math.random() is a              *)
(* nondeterministic choice among the grid prices the draw can produce.     *)
(***************************************************************************)
EXTENDS Integers, Sequences, FiniteSets, TLC

(* ---- bounds of the model ---------------------------------------------- *)
MaxTime == 6000
MaxConfigCalls == 1
MaxPredictions == 2
MaxDataPoints == 2
RoundDurationMs == 2000
AltRoundDurationMs == 1000
RoundIntervalMs == 1000
MaxSubscriptions == 2

(* ---- program constants ------------------------------------------------ *)
InitialPrice == 15000
UpdateInterval == 1000
VolatilityPct == 1
TrendPct == 0
PriceFloor == 1
InitialBalance == 10000
WinMultiplierTenths == 18
CountdownPeriodMs == 1000

NoTimer == -1
PriceGrid == {15000, 15149}
StakeAmount == 500
Amounts == {0, StakeAmount, 20000}
Directions == {"up", "down"}
Listeners == {"l1"}
UserId == "player1"
OtherUserId == "player2"
RoundDurations == {RoundDurationMs, AltRoundDurationMs}
BusListeners == {"l1", "l2"}
MaxListeners == Cardinality(BusListeners)
SelfRemovingListeners == {"once"}
ReentrantBusListeners == {"once", "l1"}
ChartCallbacks == {"c1", "c2"}
UpdateIntervals == {500, 2000}

\* One price step on its own: previous prices in cents, volatility and trend
\* in percent, Math.random() * 2 - 1 in hundredths; the price produced is
\* kept in 1 / TickScale cents.
TickScale == 10000
TickPrices == {1, 100, 15000}
TickVolatilities == {0, 1, 100, 300}
TickTrends == {-200, -100, -1, 0, 1}
TickDraws == {-100, -50, 0, 99}

\* One settlement on its own.  The reference price of a round and the price
\* it settles at are lookback prices one round apart; at up to 1% a tick
\* over the 60 ticks of a round of the default 60 s, the settlement price
\* lies within 0.99^60 and 1.01^60 (0.55 .. 1.81) of the reference price.
SettleReferencePrice == 1000
SettlePrices == {600, 1000, 1010, 1600}
SettleTimes == {2 * (RoundDurationMs + RoundIntervalMs),
                3 * (RoundDurationMs + RoundIntervalMs)}

\* One current-price lookup on its own: buffers of up to MaxLookupLen points.
MaxLookupLen == 5
LookupPrices == {14900, 15000, 15149}

VARIABLES
  now,               \* Date.now()
  chartData,         \* ChartService._chartData._data
  lastPrice,         \* ChartService._lastPrice
  tickAt,            \* due time of the ChartService update interval timer
  updateInterval,    \* ChartService._updateInterval and _fixedTimeStep
  currentRound,      \* GameService._currentRound
  results,           \* GameService._results
  roundDurationMs,   \* GameService._roundDurationMs
  cycleAt,           \* due time of the timer behind GameService._intervalId
  cyclePeriod,       \* period that timer was created with
  cooldownAt,        \* due times of the pending setTimeout(startNewRound)
  nextId,            \* identity of the next Prediction object
  configCalls,       \* number of stopGameCycle / setRoundDuration /
                     \* setUpdateInterval calls so far
  state,             \* Game._state
  balance,           \* Game._balance
  winStreak,         \* Game._winStreak
  eventListeners,    \* Game._eventListeners
  closures,          \* callbacks whose unsubscribe closure has been returned
  countdownAt,       \* due time of the timer behind Game._countdownIntervalId
  emitted,           \* events passed to Game.emitEvent by the last step
  delivered,         \* <<listener, event>> calls made by the last step
  lastCall,          \* the operation the last step ran and how it returned
  subscribers,       \* ChartService._subscribers
  unsubscribes,      \* the closures subscribeToUpdates has returned
  nextReg,           \* number of the next subscribeToUpdates registration
  notified,          \* calls made on price-feed subscribers by the last step
  tick,              \* inputs and outcome of one price step taken on its own
  lookup,            \* inputs and outcome of one getCurrentPrice() taken on its own
  cycleTimers,       \* number of active timers made by startGameCycle's setInterval
  countdownTimers,   \* number of active timers made by startCountdown's setInterval
  closedAt,          \* history: the time of the last endCurrentRound()
  abandoned          \* history: the last stop() took effect in a round that
                     \* was open, before its endTime, and held predictions,
                     \* and start() has not been called since

chartVars == <<chartData, lastPrice, tickAt, updateInterval>>
serviceVars == <<currentRound, results, roundDurationMs, cycleAt, cyclePeriod, cooldownAt, nextId, configCalls>>
gameVars == <<state, balance, winStreak, eventListeners, closures, countdownAt>>
traceVars == <<emitted, delivered, lastCall, notified>>
historyVars == <<closedAt, abandoned>>
feedVars == <<subscribers, unsubscribes, nextReg>>
pureVars == <<tick, lookup>>
hostVars == <<cycleTimers, countdownTimers>>
vars == <<now, chartVars, serviceVars, gameVars, traceVars, historyVars, feedVars, pureVars,
          hostVars>>

Min(a, b) == IF a <= b THEN a ELSE b
Max(a, b) == IF a >= b THEN a ELSE b
Abs(a) == IF a >= 0 THEN a ELSE 0 - a

(* ---- ChartData / ChartService ----------------------------------------- *)

\* addDataPoint pushing without ever evicting.
addDataPointUnbounded(data, point) == Append(data, point)

\* ChartData.addDataPoint: push, then keep the newest maxDataPoints points.
addDataPoint(data, point) ==
  LET pushed == Append(data, point)
  IN IF MaxDataPoints > 0 /\ Len(pushed) > MaxDataPoints
       THEN SubSeq(pushed, Len(pushed) - MaxDataPoints + 1, Len(pushed))
       ELSE pushed

\* The timestamp of the next point, stepping by the interval the service
\* was constructed with.
nextTimestampInitialStep(data, fixedTimeStep, t) ==
  IF Len(data) > 0 THEN data[Len(data)].timestamp + UpdateInterval ELSE t

\* The timestamp generateNextDataPoint gives the next point:
\* lastPoint.timestamp + _fixedTimeStep, or Date.now() on an empty buffer.
nextTimestamp(data, fixedTimeStep, t) ==
  IF Len(data) > 0 THEN data[Len(data)].timestamp + fixedTimeStep ELSE t

\* ChartData.getLatestPoint().price, or the fallback when the buffer is empty.
latestPrice(data, fallback) ==
  IF Len(data) = 0 THEN fallback ELSE data[Len(data)].price

\* getCurrentPrice answering with the freshest point.
getCurrentPriceLatest(data, fallback) == latestPrice(data, fallback)

\* ChartService.getCurrentPrice: the point at index floor(0.75 * n) - 1.
getCurrentPrice(data, fallback) ==
  LET visibleDataPoints == (Len(data) * 3) \div 4
  IN IF visibleDataPoints >= 1 /\ visibleDataPoints <= Len(data)
       THEN data[visibleDataPoints].price
       ELSE latestPrice(data, fallback)

\* The prices one Math.random() draw in [0, 1) can produce from prev:
\* prev + prev * volatility * u + prev * trend with u in [-1, 1), floored.
nextPrices(prev) ==
  { Max(PriceFloor, p) : p \in
      { q \in PriceGrid :
          /\ q * 100 >= prev * (100 - VolatilityPct + TrendPct)
          /\ q * 100 < prev * (100 + VolatilityPct + TrendPct) } }

\* The price assignment of generateNextDataPoint for one random draw, without
\* the floor.
tickPriceUnfloored(prev, volatilityPct, trendPct, draw) ==
  prev * (TickScale + volatilityPct * draw + 100 * trendPct)

\* The price assignment of generateNextDataPoint for one random draw:
\* max(0.01, prev + prev * volatility * draw + prev * trend).
tickPrice(prev, volatilityPct, trendPct, draw) ==
  Max(PriceFloor * TickScale,
      prev * (TickScale + volatilityPct * draw + 100 * trendPct))

\* notifySubscribers calling the subscribers newest first.
chartNotifySubscribersReversed(subs, data) ==
  [i \in 1..Len(subs) |-> [subscriber |-> subs[Len(subs) + 1 - i], data |-> data]]

\* ChartService.notifySubscribers: one call per registration, in list order,
\* each handed the buffer.
chartNotifySubscribers(subs, data) ==
  [i \in 1..Len(subs) |-> [subscriber |-> subs[i], data |-> data]]

\* The buffers the ChartService constructor can build at time 0:
\* maxDataPoints points one fixed time step apart, the last one at now,
\* each priced initialPrice * (1 +/- 1%).
RECURSIVE initialBuffers(_)
initialBuffers(n) ==
  IF n = 0 THEN { <<>> }
  ELSE { addDataPoint(b, [timestamp |-> 0 - (MaxDataPoints - n) * UpdateInterval,
                          price |-> p, highlight |-> FALSE, direction |-> "none"]) :
            b \in initialBuffers(n - 1),
           p \in { q \in PriceGrid : q * 100 >= InitialPrice * 99
                                     /\ q * 100 < InitialPrice * 101 } }

(* ---- GameRound -------------------------------------------------------- *)

\* GameRound.constructor
GameRound(startTime, durationMs, startPrice) ==
  [startTime |-> startTime, endTime |-> startTime + durationMs,
   startPrice |-> startPrice, predictions |-> <<>>, isActive |-> TRUE]

\* addPrediction pushing whether the round is active or not.
addPredictionUnguarded(round, prediction) ==
  [round EXCEPT !.predictions = Append(@, prediction)]

\* GameRound.addPrediction
addPrediction(round, prediction) ==
  IF round.isActive
    THEN [round EXCEPT !.predictions = Append(@, prediction)]
    ELSE round

\* GameRound.close
close(round) == [round EXCEPT !.isActive = FALSE]

\* GameRound.getRemainingTimeMs
getRemainingTimeMs(round, t) == Max(0, round.endTime - t)

(* ---- Prediction / GameResult ------------------------------------------ *)

\* Prediction.constructor; id stands for the identity of the object.  The
\* creation timestamp, which nothing reads, is left out.
Prediction(id, direction, amount, userId) ==
  [id |-> id, direction |-> direction, amount |-> amount, userId |-> userId]

\* getActualDirection with a flat round counted as a rise.
getActualDirectionTieUp(startPrice, endPrice) ==
  IF endPrice >= startPrice THEN "up" ELSE "down"

\* GameResult.getActualDirection
getActualDirection(startPrice, endPrice) ==
  IF endPrice > startPrice THEN "up"
  ELSE IF endPrice < startPrice THEN "down"
  ELSE "down"

\* Prediction.isCorrect
isCorrect(prediction, actualDirection) == prediction.direction = actualDirection

\* GameResult.calculateStatus
calculateStatus(prediction, startPrice, endPrice) ==
  IF isCorrect(prediction, getActualDirection(startPrice, endPrice))
    THEN "win" ELSE "lose"

\* GameResult classifying against a fixed price instead of the start price
\* it is given.
GameResultFixedReference(prediction, startPrice, endPrice) ==
  [prediction |-> prediction,
   startPrice |-> InitialPrice,
   endPrice |-> IF endPrice /= 0 THEN endPrice ELSE InitialPrice,
   reward |-> 0,
   status |-> IF endPrice /= 0
                THEN calculateStatus(prediction, InitialPrice, endPrice)
                ELSE "pending",
   timestamp |-> now]

\* GameResult.constructor: endPrice || startPrice, 'pending' when the end
\* price is falsy, and timestamp defaulting to Date.now().  reward is kept
\* in tenths of a unit.
GameResult(prediction, startPrice, endPrice) ==
  [prediction |-> prediction,
   startPrice |-> startPrice,
   endPrice |-> IF endPrice /= 0 THEN endPrice ELSE startPrice,
   reward |-> 0,
   status |-> IF endPrice /= 0
                THEN calculateStatus(prediction, startPrice, endPrice)
                ELSE "pending",
   timestamp |-> now]

\* GameResult.setReward
setReward(result, reward) == [result EXCEPT !.reward = reward]

\* GameResult.getPriceChangePercentage, as the fraction num / den.
getPriceChangePercentage(result) ==
  [num |-> (result.endPrice - result.startPrice) * 100, den |-> result.startPrice]

\* Math.round of the non-negative fraction num / den (den > 0): half up.
MathRound(num, den) == (2 * num + den) \div (2 * den)

(* ---- Game: event bus and settlement callback --------------------------- *)

\* emitEvent calling the listeners newest first.
emitEventNewestFirst(acc, event) ==
  [acc EXCEPT !.emitted = Append(@, event),
              !.delivered = @ \o [i \in 1..Len(acc.listeners) |->
                                    <<acc.listeners[Len(acc.listeners) + 1 - i], event>>]]

\* The closure Game.addEventListener returned for callback, applied to the
\* listener list: splice out the first index of callback, if any.
unsubscribe(listeners, callback) ==
  LET found == { i \in 1..Len(listeners) : listeners[i] = callback }
  IN IF found = {} THEN listeners
     ELSE LET index == CHOOSE i \in found : \A j \in found : i <= j
          IN SubSeq(listeners, 1, index - 1)
               \o SubSeq(listeners, index + 1, Len(listeners))

\* The for...of loop of Game.emitEvent from position index on: the array
\* iterator reads the live list, so a listener that calls its own
\* unsubscribe closure shortens the list under the loop.
RECURSIVE emitEventFrom(_, _, _, _)
emitEventFrom(listeners, event, index, calls) ==
  IF index > Len(listeners)
    THEN [listeners |-> listeners, calls |-> calls]
    ELSE LET listener == listeners[index]
             after == IF listener \in SelfRemovingListeners
                        THEN unsubscribe(listeners, listener)
                        ELSE listeners
         IN emitEventFrom(after, event, index + 1,
                          Append(calls, <<listener, event>>))

\* Game.emitEvent: the listeners are called in list order.
emitEvent(acc, event) ==
  LET done == emitEventFrom(acc.listeners, event, 1, <<>>)
  IN [acc EXCEPT !.emitted = Append(@, event),
                 !.delivered = @ \o done.calls,
                 !.listeners = done.listeners]

\* updateBalance announcing the balance it found instead of the new one.
updateBalanceStale(acc, change) ==
  emitEvent([acc EXCEPT !.balance = @ + change],
            [type |-> "balance_changed", newBalance |-> acc.balance,
             change |-> change])

\* Game.updateBalance
updateBalance(acc, change) ==
  emitEvent([acc EXCEPT !.balance = @ + change],
            [type |-> "balance_changed", newBalance |-> acc.balance + change,
             change |-> change])

\* handleGameResult crediting a win once more for every win of the streak.
handleGameResultStreakBonus(acc, result) ==
  IF result.prediction.userId /= UserId THEN acc
  ELSE
    LET pct == getPriceChangePercentage(result)
        amountChange == MathRound(result.prediction.amount * Abs(pct.num),
                                  pct.den * 100)
        settled ==
          IF result.status = "win"
            THEN [updateBalance(acc, amountChange * (acc.winStreak + 1))
                    EXCEPT !.winStreak = @ + 1]
            ELSE [updateBalance(acc, 0 - amountChange) EXCEPT !.winStreak = 0]
    IN emitEvent(settled, [type |-> "result", result |-> result,
                           winStreak |-> settled.winStreak])

\* handleGameResult handling the outcomes of every subject.
handleGameResultAnySubject(acc, result) ==
  LET pct == getPriceChangePercentage(result)
      amountChange == MathRound(result.prediction.amount * Abs(pct.num),
                                pct.den * 100)
      settled ==
        IF result.status = "win"
          THEN [updateBalance(acc, amountChange) EXCEPT !.winStreak = @ + 1]
          ELSE [updateBalance(acc, 0 - amountChange) EXCEPT !.winStreak = 0]
  IN emitEvent(settled, [type |-> "result", result |-> result,
                         winStreak |-> settled.winStreak])

\* handleGameResult emitting the result event before it updates the streak.
handleGameResultStaleStreak(acc, result) ==
  IF result.prediction.userId /= UserId THEN acc
  ELSE
    LET pct == getPriceChangePercentage(result)
        amountChange == MathRound(result.prediction.amount * Abs(pct.num),
                                  pct.den * 100)
        paid == IF result.status = "win"
                  THEN updateBalance(acc, amountChange)
                  ELSE updateBalance(acc, 0 - amountChange)
        announced == emitEvent(paid, [type |-> "result", result |-> result,
                                      winStreak |-> acc.winStreak])
    IN [announced EXCEPT !.winStreak = IF result.status = "win" THEN @ + 1 ELSE 0]

\* handleGameResult leaving the win streak as it is on a lose.
handleGameResultKeepStreak(acc, result) ==
  IF result.prediction.userId /= UserId THEN acc
  ELSE
    LET pct == getPriceChangePercentage(result)
        amountChange == MathRound(result.prediction.amount * Abs(pct.num),
                                  pct.den * 100)
        settled ==
          IF result.status = "win"
            THEN [updateBalance(acc, amountChange) EXCEPT !.winStreak = @ + 1]
            ELSE updateBalance(acc, 0 - amountChange)
    IN emitEvent(settled, [type |-> "result", result |-> result,
                           winStreak |-> settled.winStreak])

\* handleGameResult crediting a win with the fixed-multiplier reward.
handleGameResultMultiplier(acc, result) ==
  IF result.prediction.userId /= UserId THEN acc
  ELSE
    LET pct == getPriceChangePercentage(result)
        amountChange == MathRound(result.prediction.amount * Abs(pct.num),
                                  pct.den * 100)
        settled ==
          IF result.status = "win"
            THEN [updateBalance(acc, result.reward \div 10) EXCEPT !.winStreak = @ + 1]
            ELSE [updateBalance(acc, 0 - amountChange) EXCEPT !.winStreak = 0]
    IN emitEvent(settled, [type |-> "result", result |-> result,
                           winStreak |-> settled.winStreak])

\* Game.handleGameResult
handleGameResult(acc, result) ==
  IF result.prediction.userId /= UserId THEN acc
  ELSE
    LET pct == getPriceChangePercentage(result)
        amountChange == MathRound(result.prediction.amount * Abs(pct.num),
                                  pct.den * 100)
        settled ==
          IF result.status = "win"
            THEN [updateBalance(acc, amountChange) EXCEPT !.winStreak = @ + 1]
            ELSE [updateBalance(acc, 0 - amountChange) EXCEPT !.winStreak = 0]
    IN emitEvent(settled, [type |-> "result", result |-> result,
                           winStreak |-> settled.winStreak])

\* GameService.notifySubscribers: the Game constructor subscribed
\* handleGameResult, the only subscriber.
notifySubscribers(acc, result) == handleGameResult(acc, result)

\* The settlement loop taking the round's predictions newest first.
RECURSIVE settleAllNewestFirst(_, _, _, _)
settleAllNewestFirst(acc, predictions, startPrice, endPrice) ==
  IF predictions = <<>> THEN acc
  ELSE
    LET prediction == predictions[Len(predictions)]
        fresh == GameResult(prediction, startPrice, endPrice)
        result == IF fresh.status = "win"
                    THEN setReward(fresh, prediction.amount * WinMultiplierTenths)
                    ELSE fresh
        saved == [acc EXCEPT !.results = Append(@, result)]
    IN settleAllNewestFirst(notifySubscribers(saved, result),
                            SubSeq(predictions, 1, Len(predictions) - 1),
                            startPrice, endPrice)

\* The loop of GameService.endCurrentRound over the round's predictions.
RECURSIVE settleAll(_, _, _, _)
settleAll(acc, predictions, startPrice, endPrice) ==
  IF predictions = <<>> THEN acc
  ELSE
    LET prediction == Head(predictions)
        fresh == GameResult(prediction, startPrice, endPrice)
        result == IF fresh.status = "win"
                    THEN setReward(fresh, prediction.amount * WinMultiplierTenths)
                    ELSE fresh
        saved == [acc EXCEPT !.results = Append(@, result)]
    IN settleAll(notifySubscribers(saved, result), Tail(predictions),
                 startPrice, endPrice)

\* The session state a handler starts from, with an empty event trace.
Acc ==
  [results |-> results, balance |-> balance, winStreak |-> winStreak,
   listeners |-> eventListeners, emitted |-> <<>>, delivered |-> <<>>]

Call(op, err) == [op |-> op, err |-> err]

(* ---- initial state: after main.tsx has constructed the services -------- *)

Constructed ==
  /\ now = 0
  /\ chartData \in initialBuffers(MaxDataPoints)
  /\ lastPrice = latestPrice(chartData, InitialPrice)
  /\ tickAt = UpdateInterval
  /\ updateInterval = UpdateInterval
  /\ currentRound = GameRound(0, RoundDurationMs, getCurrentPrice(chartData, lastPrice))
  /\ results = <<>>
  /\ roundDurationMs = RoundDurationMs
  /\ cycleAt = RoundDurationMs + RoundIntervalMs
  /\ cyclePeriod = RoundDurationMs + RoundIntervalMs
  /\ cooldownAt = {}
  /\ nextId = 1
  /\ configCalls = 0
  /\ state = "waiting"
  /\ balance = InitialBalance
  /\ winStreak = 0
  /\ eventListeners = <<>>
  /\ closures = {}
  /\ countdownAt = NoTimer
  /\ emitted = <<>>
  /\ delivered = <<>>
  /\ lastCall = Call("constructor", "none")
  /\ cycleTimers = 1
  /\ countdownTimers = 0
  /\ closedAt = NoTimer
  /\ abandoned = FALSE
  /\ subscribers = <<>>
  /\ unsubscribes = {}
  /\ nextReg = 1
  /\ notified = <<>>

\* No price step has been taken on its own.
NoTick ==
  [prev |-> InitialPrice, volatilityPct |-> VolatilityPct, trendPct |-> TrendPct,
   drawn |-> FALSE, draw |-> 0, price |-> 0]

\* No getCurrentPrice() has been taken on its own.
NoLookup == [data |-> <<>>, fallback |-> InitialPrice, asked |-> FALSE, price |-> 0]

Init == Constructed /\ tick = NoTick /\ lookup = NoLookup

(* ---- the clock -------------------------------------------------------- *)

\* The due times of all active timers.
Deadlines ==
  ({tickAt, cycleAt, countdownAt} \ {NoTimer}) \union cooldownAt

RECURSIVE SetMin(_)
SetMin(S) ==
  LET x == CHOOSE y \in S : TRUE
  IN IF S = {x} THEN x ELSE Min(x, SetMin(S \ {x}))

\* Time passes until the next timer is due, when no timer is due now.  The
\* ChartService timer is never cleared, so there always is a next one.
Advance ==
  /\ UNCHANGED <<feedVars, pureVars, hostVars>>
  /\ notified' = <<>>
  /\ now \notin Deadlines
  /\ now' = SetMin(Deadlines)
  /\ now' <= MaxTime
  /\ emitted' = <<>>
  /\ delivered' = <<>>
  /\ lastCall' = Call("advance", "none")
  /\ UNCHANGED <<historyVars, chartVars, serviceVars, gameVars>>

(* ---- ChartService timer ------------------------------------------------ *)

\* The setInterval callback of ChartService.startUpdates:
\* ChartService.generateNextDataPoint.
generateNextDataPoint ==
  /\ UNCHANGED <<feedVars, pureVars, hostVars>>
  /\ tickAt = now
  /\ \E newPrice \in nextPrices(lastPrice) :
       LET timestamp == nextTimestamp(chartData, updateInterval, now)
       IN /\ lastPrice' = newPrice
          /\ chartData' = addDataPoint(chartData,
               [timestamp |-> timestamp, price |-> newPrice,
                highlight |-> FALSE, direction |-> "none"])
  /\ notified' = chartNotifySubscribers(subscribers, chartData')
  /\ tickAt' = tickAt + updateInterval
  /\ updateInterval' = updateInterval
  /\ emitted' = <<>>
  /\ delivered' = <<>>
  /\ lastCall' = Call("generateNextDataPoint", "none")
  /\ UNCHANGED <<historyVars, now, serviceVars, gameVars>>

\* ChartService.markPredictionPoint: the buffer after the call.  The point
\* at index floor(0.75 * n) - 1 is highlighted (highlight and
\* isPredictionPoint are always written together) and tagged with the
\* direction; every other point loses its highlight.
markPredictionPoint(data, direction) ==
  LET visibleDataPoints == (Len(data) * 3) \div 4
  IN IF visibleDataPoints >= 1 /\ visibleDataPoints <= Len(data)
       THEN [i \in 1..Len(data) |->
               IF i = visibleDataPoints
                 THEN [data[i] EXCEPT !.highlight = TRUE, !.direction = direction]
                 ELSE [data[i] EXCEPT !.highlight = FALSE]]
       ELSE data

(* ---- GameService ------------------------------------------------------ *)

\* stopGameCycle forgetting its timer without clearing it.
stopGameCycleTimersLeaking == cycleTimers

\* The timers of startGameCycle left active by stopGameCycle: the one held
\* in _intervalId, if any, is cleared.
stopGameCycleTimers ==
  IF cycleAt /= NoTimer THEN cycleTimers - 1 ELSE cycleTimers

\* The timers of startCountdown left active by Game.stopCountdown: the one
\* held in _countdownIntervalId, if any, is cleared.
stopCountdownTimers ==
  IF countdownAt /= NoTimer THEN countdownTimers - 1 ELSE countdownTimers

\* startNewRound reusing the ledger of the round it replaces.
startNewRoundKeepingLedger ==
  [GameRound(now, roundDurationMs', getCurrentPrice(chartData, lastPrice))
     EXCEPT !.predictions = currentRound.predictions]

\* startNewRound carrying the reference price over from the old round.
startNewRoundStalePrice ==
  GameRound(now, roundDurationMs', currentRound.startPrice)

\* GameService.startNewRound: the round it stores.
startNewRound ==
  GameRound(now, roundDurationMs', getCurrentPrice(chartData, lastPrice))

\* The setInterval callback of GameService.startGameCycle:
\* endCurrentRound(), then setTimeout(startNewRound, roundIntervalMs).
endCurrentRound ==
  /\ UNCHANGED <<feedVars, pureVars, hostVars>>
  /\ notified' = <<>>
  /\ cycleAt = now
  /\ LET closed == close(currentRound)
         endPrice == getCurrentPrice(chartData, lastPrice)
         done == settleAll(Acc, closed.predictions, closed.startPrice, endPrice)
     IN /\ currentRound' = closed
        /\ results' = done.results
        /\ balance' = done.balance
        /\ winStreak' = done.winStreak
        /\ emitted' = done.emitted
        /\ delivered' = done.delivered
        /\ eventListeners' = done.listeners
  /\ cooldownAt' = cooldownAt \union {now + RoundIntervalMs}
  /\ cycleAt' = now + cyclePeriod
  /\ lastCall' = Call("endCurrentRound", "none")
  /\ closedAt' = now
  /\ abandoned' = abandoned
  /\ UNCHANGED <<now, chartVars, roundDurationMs, cyclePeriod, nextId, configCalls,
                 state, closures, countdownAt>>

\* The setTimeout callback scheduled by the cycle timer: startNewRound().
cooldownElapsed ==
  /\ UNCHANGED <<feedVars, pureVars, hostVars>>
  /\ notified' = <<>>
  /\ now \in cooldownAt
  /\ cooldownAt' = cooldownAt \ {now}
  /\ roundDurationMs' = roundDurationMs
  /\ currentRound' = startNewRound
  /\ emitted' = <<>>
  /\ delivered' = <<>>
  /\ lastCall' = Call("startNewRound", "none")
  /\ UNCHANGED <<historyVars, now, chartVars, results, cycleAt, cyclePeriod, nextId, configCalls,
                 gameVars>>

\* GameService.stopGameCycle
stopGameCycle ==
  /\ UNCHANGED <<feedVars, pureVars>>
  /\ cycleTimers' = stopGameCycleTimers
  /\ countdownTimers' = countdownTimers
  /\ notified' = <<>>
  /\ configCalls < MaxConfigCalls
  /\ configCalls' = configCalls + 1
  /\ cycleAt' = NoTimer
  /\ emitted' = <<>>
  /\ delivered' = <<>>
  /\ lastCall' = Call("stopGameCycle", "none")
  /\ UNCHANGED <<historyVars, now, chartVars, currentRound, results, roundDurationMs,
                 cyclePeriod, cooldownAt, nextId, gameVars>>

\* GameService.setRoundDuration: stopGameCycle(), then startGameCycle(),
\* which opens a round and creates the cycle timer anew.
setRoundDuration(durationMs) ==
  /\ UNCHANGED <<feedVars, pureVars>>
  /\ cycleTimers' = stopGameCycleTimers + 1
  /\ countdownTimers' = countdownTimers
  /\ notified' = <<>>
  /\ configCalls < MaxConfigCalls
  /\ configCalls' = configCalls + 1
  /\ roundDurationMs' = durationMs
  /\ currentRound' = startNewRound
  /\ cycleAt' = now + durationMs + RoundIntervalMs
  /\ cyclePeriod' = durationMs + RoundIntervalMs
  /\ emitted' = <<>>
  /\ delivered' = <<>>
  /\ lastCall' = Call("setRoundDuration", "none")
  /\ UNCHANGED <<historyVars, now, chartVars, results, cooldownAt, nextId, gameVars>>

\* The guard of GameService.makePrediction that never finds the round closed.
roundNotActiveNever == FALSE

\* The guard of GameService.makePrediction: no round, or a closed one.
roundNotActive == ~currentRound.isActive

\* GameService.makePrediction called directly, for any subject.
serviceMakePrediction(direction, amount, userId) ==
  /\ UNCHANGED <<feedVars, pureVars, hostVars>>
  /\ notified' = <<>>
  /\ IF roundNotActive
       THEN /\ lastCall' = Call("GameService.makePrediction", "round_not_active")
            /\ UNCHANGED <<currentRound, nextId>>
       ELSE /\ nextId <= MaxPredictions
            /\ currentRound' = addPrediction(currentRound,
                 Prediction(nextId, direction, amount, userId))
            /\ nextId' = nextId + 1
            /\ lastCall' = Call("GameService.makePrediction", "none")
  /\ emitted' = <<>>
  /\ delivered' = <<>>
  /\ UNCHANGED <<historyVars, now, chartVars, results, roundDurationMs, cycleAt, cyclePeriod,
                 cooldownAt, configCalls, gameVars>>

(* ---- Game ------------------------------------------------------------- *)

\* The guard of Game.start that never finds the session running.
alreadyRunningNever == FALSE

\* The guard of Game.start.
alreadyRunning == state = "running"

\* Game.start
start ==
  /\ UNCHANGED <<feedVars, pureVars>>
  /\ cycleTimers' = cycleTimers
  /\ countdownTimers' = IF alreadyRunning THEN countdownTimers
                                          ELSE stopCountdownTimers + 1
  /\ notified' = <<>>
  /\ IF alreadyRunning
       THEN /\ emitted' = <<>>
            /\ delivered' = <<>>
            /\ UNCHANGED <<state, countdownAt, eventListeners>>
       ELSE LET done == emitEvent(Acc, [type |-> "round_start",
                                        timestamp |-> currentRound.startTime,
                                        price |-> currentRound.startPrice])
            IN /\ state' = "running"
               /\ emitted' = done.emitted
               /\ delivered' = done.delivered
               /\ eventListeners' = done.listeners
               /\ countdownAt' = now + CountdownPeriodMs
  /\ lastCall' = Call("start", "none")
  /\ abandoned' = FALSE
  /\ closedAt' = closedAt
  /\ UNCHANGED <<now, chartVars, serviceVars, balance, winStreak, closures>>

\* Game.stop
stop ==
  /\ UNCHANGED <<feedVars, pureVars>>
  /\ cycleTimers' = cycleTimers
  /\ countdownTimers' = IF state /= "running" THEN countdownTimers
                                                ELSE stopCountdownTimers
  /\ notified' = <<>>
  /\ IF state /= "running"
       THEN UNCHANGED <<state, countdownAt, abandoned>>
       ELSE /\ state' = "finished"
            /\ countdownAt' = NoTimer
            /\ abandoned' = (/\ currentRound.isActive
                             /\ now < currentRound.endTime
                             /\ currentRound.predictions /= <<>>)
  /\ closedAt' = closedAt
  /\ emitted' = <<>>
  /\ delivered' = <<>>
  /\ lastCall' = Call("stop", "none")
  /\ UNCHANGED <<now, chartVars, serviceVars, balance, winStreak,
                 eventListeners, closures>>

\* The state guard of Game.makePrediction refusing only a session that was
\* never started.
notRunningOnlyWaiting == state = "waiting"

\* The state guard of Game.makePrediction.
notRunning == state /= "running"

\* The amount guard of Game.makePrediction without the balance limit.
invalidAmountNonPositive(amount) == amount <= 0

\* The amount guard of Game.makePrediction.
invalidAmount(amount) == amount <= 0 \/ amount > balance

\* The prediction_made event carrying the opposite direction.
predictionMadeEventOpposite(direction, amount, price) ==
  [type |-> "prediction_made",
   direction |-> IF direction = "up" THEN "down" ELSE "up",
   amount |-> amount, price |-> price]

\* The prediction_made event Game.makePrediction emits.
predictionMadeEvent(direction, amount, price) ==
  [type |-> "prediction_made", direction |-> direction, amount |-> amount,
   price |-> price]

\* makePrediction taking the stake from the balance when the bet is placed.
makePredictionDeductingStake(direction, amount) ==
  /\ state = "running"
  /\ ~invalidAmount(amount)
  /\ ~roundNotActive
  /\ nextId <= MaxPredictions
  /\ currentRound' = addPrediction(currentRound,
       Prediction(nextId, direction, amount, UserId))
  /\ nextId' = nextId + 1
  /\ balance' = balance - amount
  /\ emitted' = <<>>
  /\ delivered' = <<>>
  /\ notified' = <<>>
  /\ lastCall' = Call("makePrediction", "none")
  /\ UNCHANGED <<now, chartVars, results, roundDurationMs, cycleAt, cyclePeriod,
                 cooldownAt, configCalls, state, winStreak, eventListeners,
                 closures, countdownAt, historyVars, feedVars, pureVars, hostVars>>

\* Game.makePrediction
makePrediction(direction, amount) ==
  /\ UNCHANGED <<feedVars, pureVars, hostVars>>
  /\ IF notRunning
       THEN /\ lastCall' = Call("makePrediction", "not_running")
            /\ emitted' = <<>>
            /\ delivered' = <<>>
            /\ notified' = <<>>
            /\ UNCHANGED <<currentRound, nextId, chartData, eventListeners>>
       ELSE IF invalidAmount(amount)
       THEN /\ lastCall' = Call("makePrediction", "invalid_amount")
            /\ emitted' = <<>>
            /\ delivered' = <<>>
            /\ notified' = <<>>
            /\ UNCHANGED <<currentRound, nextId, chartData, eventListeners>>
       ELSE IF roundNotActive
       THEN /\ lastCall' = Call("makePrediction", "round_not_active")
            /\ emitted' = <<>>
            /\ delivered' = <<>>
            /\ notified' = <<>>
            /\ UNCHANGED <<currentRound, nextId, chartData, eventListeners>>
       ELSE LET done == emitEvent(Acc, predictionMadeEvent(direction, amount,
                                          getCurrentPrice(chartData, lastPrice)))
            IN /\ nextId <= MaxPredictions
               /\ currentRound' = addPrediction(currentRound,
                    Prediction(nextId, direction, amount, UserId))
               /\ nextId' = nextId + 1
               /\ chartData' = markPredictionPoint(chartData, direction)
               /\ notified' = IF (Len(chartData) * 3) \div 4 >= 1
                                THEN chartNotifySubscribers(subscribers, chartData')
                                ELSE <<>>
               /\ emitted' = done.emitted
               /\ delivered' = done.delivered
               /\ eventListeners' = done.listeners
               /\ lastCall' = Call("makePrediction", "none")
  /\ UNCHANGED <<historyVars, now, lastPrice, tickAt, updateInterval, results,
                 roundDurationMs, cycleAt, cyclePeriod, cooldownAt, configCalls,
                 state, balance, winStreak, closures, countdownAt>>

\* The setInterval callback of Game.startCountdown.
countdown ==
  /\ UNCHANGED <<feedVars, pureVars, hostVars>>
  /\ notified' = <<>>
  /\ countdownAt = now
  /\ LET remainingMs == getRemainingTimeMs(currentRound, now)
         remainingSeconds == (remainingMs + 999) \div 1000
         done == emitEvent(Acc, [type |-> "countdown",
                                 remainingSeconds |-> remainingSeconds])
     IN /\ emitted' = done.emitted
        /\ delivered' = done.delivered
        /\ eventListeners' = done.listeners
  /\ countdownAt' = now + CountdownPeriodMs
  /\ lastCall' = Call("countdown", "none")
  /\ UNCHANGED <<historyVars, now, chartVars, serviceVars, state, balance, winStreak,
                 closures>>

\* Game.addEventListener, each callback being registered once.
addEventListener(callback) ==
  /\ UNCHANGED <<feedVars, pureVars, hostVars>>
  /\ notified' = <<>>
  /\ Len(eventListeners) < MaxListeners
  /\ callback \notin closures
  /\ eventListeners' = Append(eventListeners, callback)
  /\ closures' = closures \union {callback}
  /\ emitted' = <<>>
  /\ delivered' = <<>>
  /\ lastCall' = Call("addEventListener", "none")
  /\ UNCHANGED <<historyVars, now, chartVars, serviceVars, state, balance, winStreak, countdownAt>>

\* The closure Game.addEventListener returned for callback:
\* splice out the first index of callback, if any.
removeEventListener(callback) ==
  /\ UNCHANGED <<feedVars, pureVars, hostVars>>
  /\ notified' = <<>>
  /\ callback \in closures
  /\ LET found == { i \in 1..Len(eventListeners) : eventListeners[i] = callback }
     IN eventListeners' =
          IF found = {} THEN eventListeners
          ELSE LET index == SetMin(found)
               IN SubSeq(eventListeners, 1, index - 1)
                    \o SubSeq(eventListeners, index + 1, Len(eventListeners))
  /\ emitted' = <<>>
  /\ delivered' = <<>>
  /\ lastCall' = Call("removeEventListener", "none")
  /\ UNCHANGED <<historyVars, now, chartVars, serviceVars, state, balance, winStreak,
                 closures, countdownAt>>

(* ---- callers of the services' own interfaces --------------------------- *)

\* GameRound.addPrediction called on the round getCurrentRound() returned,
\* with a prediction of another subject.  A prediction the round does not
\* keep is garbage, so its identity is not used up.
roundAddPrediction(direction) ==
  /\ UNCHANGED <<feedVars, pureVars, hostVars>>
  /\ notified' = <<>>
  /\ currentRound.isActive => nextId <= MaxPredictions
  /\ currentRound' = addPrediction(currentRound,
       Prediction(nextId, direction, StakeAmount, OtherUserId))
  /\ nextId' = IF currentRound.isActive THEN nextId + 1 ELSE nextId
  /\ emitted' = <<>>
  /\ delivered' = <<>>
  /\ lastCall' = Call("GameRound.addPrediction", "none")
  /\ UNCHANGED <<historyVars, now, chartVars, results, roundDurationMs, cycleAt,
                 cyclePeriod, cooldownAt, configCalls, gameVars>>

\* ChartService.subscribeToUpdates; the closure it returns remembers the
\* callback.  reg and called are history: which registration produced the
\* closure, and whether the closure has been called.
subscribeToUpdates(callback) ==
  /\ nextReg <= MaxSubscriptions
  /\ subscribers' = Append(subscribers, callback)
  /\ unsubscribes' = unsubscribes \union
                       {[callback |-> callback, reg |-> nextReg, called |-> FALSE]}
  /\ nextReg' = nextReg + 1
  /\ notified' = <<>>
  /\ emitted' = <<>>
  /\ delivered' = <<>>
  /\ lastCall' = Call("subscribeToUpdates", "none")
  /\ UNCHANGED <<now, chartVars, serviceVars, gameVars, historyVars, pureVars, hostVars>>

\* A closure ChartService.subscribeToUpdates returned:
\* splice out the first index of the callback, if any.
unsubscribeFromUpdates(closure) ==
  /\ closure \in unsubscribes
  /\ LET found == { i \in 1..Len(subscribers) : subscribers[i] = closure.callback }
     IN subscribers' =
          IF found = {} THEN subscribers
          ELSE LET index == SetMin(found)
               IN SubSeq(subscribers, 1, index - 1)
                    \o SubSeq(subscribers, index + 1, Len(subscribers))
  /\ unsubscribes' = (unsubscribes \ {closure}) \union
                       {[closure EXCEPT !.called = TRUE]}
  /\ notified' = <<>>
  /\ emitted' = <<>>
  /\ delivered' = <<>>
  /\ lastCall' = Call("unsubscribe", "none")
  /\ UNCHANGED <<now, chartVars, serviceVars, gameVars, historyVars, nextReg, pureVars, hostVars>>

\* ChartService.setUpdateInterval: store the interval as update interval and
\* as fixed time step, then stopUpdates() and startUpdates(), which creates
\* the timer anew.
setUpdateInterval(interval) ==
  /\ UNCHANGED <<feedVars, pureVars, hostVars>>
  /\ configCalls < MaxConfigCalls
  /\ configCalls' = configCalls + 1
  /\ updateInterval' = interval
  /\ tickAt' = now + interval
  /\ notified' = <<>>
  /\ emitted' = <<>>
  /\ delivered' = <<>>
  /\ lastCall' = Call("setUpdateInterval", "none")
  /\ UNCHANGED <<historyVars, now, chartData, lastPrice, currentRound, results,
                 roundDurationMs, cycleAt, cyclePeriod, cooldownAt, nextId, gameVars>>

\* One getCurrentPrice() for the buffer and last price held in lookup.
lookupStep ==
  /\ ~lookup.asked
  /\ lookup' = [lookup EXCEPT !.asked = TRUE,
                              !.price = getCurrentPrice(lookup.data, lookup.fallback)]
  /\ UNCHANGED <<now, chartVars, serviceVars, gameVars, traceVars, historyVars, feedVars,
                 tick, hostVars>>

\* One price step of generateNextDataPoint for the inputs held in tick.
tickStep ==
  /\ ~tick.drawn
  /\ \E draw \in TickDraws :
       tick' = [tick EXCEPT !.drawn = TRUE, !.draw = draw,
                            !.price = tickPrice(tick.prev, tick.volatilityPct,
                                                tick.trendPct, draw)]
  /\ UNCHANGED <<now, chartVars, serviceVars, gameVars, traceVars, historyVars, feedVars,
                 lookup, hostVars>>

\* The program as the application drives it: the timers, and the calls the
\* components make on the session.
Next ==
  \/ Advance
  \/ generateNextDataPoint
  \/ endCurrentRound
  \/ cooldownElapsed
  \/ start
  \/ stop
  \/ \E dir \in Directions, a \in Amounts : makePrediction(dir, a)
  \/ countdown
  \/ \E l \in Listeners : addEventListener(l)
  \/ \E l \in Listeners : removeEventListener(l)

Spec == Init /\ [][Next]_vars

\* The public interface of GameService driven directly by another subject,
\* with the session constructed (and subscribed to the results) but not
\* started.
ServiceNext ==
  \/ Advance
  \/ generateNextDataPoint
  \/ endCurrentRound
  \/ cooldownElapsed
  \/ stopGameCycle
  \/ \E d \in RoundDurations : setRoundDuration(d)
  \/ \E dir \in Directions : serviceMakePrediction(dir, StakeAmount, OtherUserId)
  \/ \E dir \in Directions : roundAddPrediction(dir)

ServiceSpec == Init /\ [][ServiceNext]_vars

\* The price feed with observers subscribing and unsubscribing while the
\* timers run.
FeedNext ==
  \/ Advance
  \/ generateNextDataPoint
  \/ endCurrentRound
  \/ cooldownElapsed
  \/ \E callback \in ChartCallbacks : subscribeToUpdates(callback)
  \/ \E closure \in unsubscribes : unsubscribeFromUpdates(closure)

FeedSpec == Init /\ [][FeedNext]_vars

\* The session started and stopped while the round duration is reconfigured
\* and the timers run.
TimerNext ==
  \/ Advance
  \/ generateNextDataPoint
  \/ endCurrentRound
  \/ cooldownElapsed
  \/ countdown
  \/ start
  \/ stop
  \/ stopGameCycle
  \/ \E d \in RoundDurations : setRoundDuration(d)

TimerSpec == Init /\ [][TimerNext]_vars

\* The session with a listener that calls its own unsubscribe closure when
\* it is called, registered next to a plain one.
ReentrantNext ==
  \/ Advance
  \/ generateNextDataPoint
  \/ endCurrentRound
  \/ cooldownElapsed
  \/ start
  \/ stop
  \/ countdown
  \/ \E l \in ReentrantBusListeners : addEventListener(l)

ReentrantSpec == Init /\ [][ReentrantNext]_vars

\* The round scheduler running, never stopped: bets placed and the round
\* duration reconfigured at any instant, while every timer that is due fires
\* and time passes.
LiveNext ==
  \/ Advance
  \/ generateNextDataPoint
  \/ endCurrentRound
  \/ cooldownElapsed
  \/ \E d \in RoundDurations : setRoundDuration(d)
  \/ \E dir \in Directions : serviceMakePrediction(dir, StakeAmount, OtherUserId)

LiveSpec ==
  /\ Init
  /\ [][LiveNext]_vars
  /\ WF_vars(Advance)
  /\ WF_vars(generateNextDataPoint)
  /\ WF_vars(endCurrentRound)
  /\ WF_vars(cooldownElapsed)

\* The price feed with its update interval reconfigured while the timers
\* run.
IntervalNext ==
  \/ Advance
  \/ generateNextDataPoint
  \/ endCurrentRound
  \/ cooldownElapsed
  \/ \E interval \in UpdateIntervals : setUpdateInterval(interval)

IntervalSpec == Init /\ [][IntervalNext]_vars

\* The session with two listeners registering while it runs.
BusNext ==
  \/ Advance
  \/ generateNextDataPoint
  \/ endCurrentRound
  \/ cooldownElapsed
  \/ start
  \/ \E dir \in Directions : makePrediction(dir, StakeAmount)
  \/ countdown
  \/ \E l \in BusListeners : addEventListener(l)

BusSpec == Init /\ [][BusNext]_vars

\* One price step for every previous price, volatility, trend and draw.
TickInit ==
  /\ Constructed
  /\ tick \in { [NoTick EXCEPT !.prev = p, !.volatilityPct = v, !.trendPct = t] :
                  p \in TickPrices, v \in TickVolatilities, t \in TickTrends }
  /\ lookup = NoLookup

TickNext == tickStep

TickSpec == TickInit /\ [][TickNext]_vars

\* The sessions a settlement can find: nothing settled yet, or one earlier
\* round settled from SettleReferencePrice to the highest settlement price
\* with one bet of the session's subject, a win of the stake or a lose of
\* the whole balance.
SettleSessions(t) ==
  { LET blank == [results |-> <<>>, balance |-> InitialBalance, winStreak |-> 0,
                  listeners |-> <<>>, emitted |-> <<>>, delivered |-> <<>>]
        done == settleAll(blank, earlier, SettleReferencePrice, 1600)
    IN [results |-> [i \in DOMAIN done.results |->
                       [done.results[i] EXCEPT !.timestamp = t]],
        balance |-> done.balance, winStreak |-> done.winStreak] :
      earlier \in { <<>>, <<Prediction(1, "up", StakeAmount, UserId)>>,
                     <<Prediction(1, "down", InitialBalance, UserId)>> } }

\* The ledgers of n bets, numbered from id on, Game.makePrediction accepts
\* from a session with the given balance: the stake or the whole balance,
\* on either direction.
RECURSIVE settleLedgers(_, _, _)
settleLedgers(n, id, bal) ==
  IF n = 0 THEN { <<>> }
  ELSE { Append(l, Prediction(id + n - 1, d, a, UserId)) :
           l \in settleLedgers(n - 1, id, bal), d \in Directions,
           a \in { x \in {StakeAmount, bal} : x > 0 /\ x <= bal } }

\* The program at an instant its cycle timer is due: a session that has
\* been running, an open round holding bets, and the feed at the price the
\* round settles at.
SettleInit ==
  /\ now \in SettleTimes
  /\ \E p \in SettlePrices :
       /\ chartData = [i \in 1..MaxDataPoints |->
                         [timestamp |-> now - (MaxDataPoints - i) * UpdateInterval,
                          price |-> p, highlight |-> FALSE, direction |-> "none"]]
       /\ lastPrice = p
  /\ tickAt = now + UpdateInterval
  /\ updateInterval = UpdateInterval
  /\ \E session \in SettleSessions(now - (RoundDurationMs + RoundIntervalMs)) :
       /\ results = session.results
       /\ balance = session.balance
       /\ winStreak = session.winStreak
       /\ \E n \in 1..MaxPredictions :
            /\ \E ledger \in settleLedgers(n, Len(session.results) + 1, session.balance) :
                 currentRound =
                   [GameRound(now - RoundDurationMs, RoundDurationMs, SettleReferencePrice)
                      EXCEPT !.predictions = ledger]
            /\ nextId = Len(session.results) + n + 1
  /\ roundDurationMs = RoundDurationMs
  /\ cycleAt = now
  /\ cyclePeriod = RoundDurationMs + RoundIntervalMs
  /\ cooldownAt = {}
  /\ configCalls = 0
  /\ state = "running"
  /\ eventListeners = <<>>
  /\ closures = {}
  /\ countdownAt = now + CountdownPeriodMs
  /\ emitted = <<>>
  /\ delivered = <<>>
  /\ lastCall = Call("advance", "none")
  /\ cycleTimers = 1
  /\ countdownTimers = 1
  /\ closedAt = now - (RoundDurationMs + RoundIntervalMs)
  /\ abandoned = FALSE
  /\ subscribers = <<>>
  /\ unsubscribes = {}
  /\ nextReg = 1
  /\ notified = <<>>
  /\ tick = NoTick
  /\ lookup = NoLookup

SettleNext == endCurrentRound

SettleSpec == SettleInit /\ [][SettleNext]_vars

\* One getCurrentPrice() for every buffer of up to MaxLookupLen points and
\* every last price.
RECURSIVE lookupBuffers(_)
lookupBuffers(n) ==
  IF n = 0 THEN { <<>> }
  ELSE { Append(b, [timestamp |-> (n - 1) * UpdateInterval, price |-> p,
                    highlight |-> FALSE, direction |-> "none"]) :
           b \in lookupBuffers(n - 1), p \in LookupPrices }

LookupInit ==
  /\ Constructed
  /\ tick = NoTick
  /\ lookup \in { [NoLookup EXCEPT !.data = b, !.fallback = f] :
                    b \in UNION { lookupBuffers(n) : n \in 0..MaxLookupLen },
                    f \in LookupPrices }

LookupNext == lookupStep

LookupSpec == LookupInit /\ [][LookupNext]_vars

(* ======================================================================== *)
(* Properties                                                               *)
(* ======================================================================== *)

\* The positions in the results history of the results for prediction id.
ResultsFor(id) == { i \in DOMAIN results : results[i].prediction.id = id }

\* The ids of the predictions held by a round.
PredictionIds(round) == { round.predictions[i].id : i \in DOMAIN round.predictions }

IsTie(result) == result.endPrice = result.startPrice

\* C1: exactly-once settlement.  No prediction ever has more than one result
\* in the history, and once the current round is closed each of its
\* predictions has exactly one, whatever timers fired and whatever
\* stopGameCycle / setRoundDuration calls were made.
ExactlyOnceSettlement ==
  /\ \A id \in 1..(nextId - 1) : Cardinality(ResultsFor(id)) <= 1
  /\ ~currentRound.isActive =>
       \A id \in PredictionIds(currentRound) : Cardinality(ResultsFor(id)) = 1

\* C1 witness: a configuration call was made, a prediction was settled, and a
\* later cycle has closed another round since.
SettledBeforeLaterCycle ==
  /\ configCalls > 0
  /\ results /= <<>>
  /\ ~currentRound.isActive
  /\ \A i \in DOMAIN results : results[i].prediction.id \notin PredictionIds(currentRound)

\* C2: late-bet rejection.  A makePrediction call made after the current
\* round's endTime returns an error and leaves the round as it was.
LateBetRejection ==
  [][(lastCall'.op = "makePrediction" /\ now > currentRound.endTime)
       => (lastCall'.err /= "none" /\ currentRound' = currentRound)]_vars

\* C3: a round that was open with predictions when stop() was called is
\* abandoned.  From then on, as long as the session stays stopped, no result
\* event is emitted and balance and winStreak keep their values.
StopAbandonsRound ==
  [][(abandoned /\ state = "finished" /\ state' = "finished")
       => /\ \A i \in DOMAIN emitted' : emitted'[i].type /= "result"
          /\ balance' = balance
          /\ winStreak' = winStreak]_vars

\* C4: between stop() and the next start() no event is delivered to any
\* listener.
NoEventsAfterStop ==
  [][(state = "finished" /\ state' = "finished") => delivered' = <<>>]_vars

\* C5: stop() cancels the price, round-end and cooldown timers.  While the
\* session stays stopped no price point is generated, no round is closed or
\* settled and no round is opened.
StopCancelsTimers ==
  [][(state = "finished" /\ state' = "finished")
       => /\ chartData' = chartData
          /\ currentRound' = currentRound
          /\ results' = results]_vars

\* C6: every round has endTime = startTime + roundDurationMs, is closed at
\* the instant endTime and not later, and once closed is not open again.
RoundClosesAtClosesAt ==
  [][/\ currentRound'.endTime = currentRound'.startTime + roundDurationMs'
     /\ (currentRound.isActive /\ ~currentRound'.isActive)
          => now = currentRound.endTime
     /\ currentRound'.isActive => now' <= currentRound'.endTime
     /\ (~currentRound.isActive /\ currentRound'.startTime = currentRound.startTime
           /\ closedAt' = closedAt)
          => ~currentRound'.isActive]_vars

\* C7: after a round is closed the next round is opened exactly
\* roundIntervalMs later, empty, with the value of getCurrentPrice() at that
\* instant as its reference price; no round stays closed beyond that instant.
NextRoundAfterCooldown ==
  [][/\ (~currentRound.isActive /\ currentRound'.isActive)
          => /\ now = closedAt + RoundIntervalMs
             /\ currentRound'.startTime = now
             /\ currentRound'.startPrice = getCurrentPrice(chartData, lastPrice)
             /\ currentRound'.predictions = <<>>
     /\ ~currentRound'.isActive => now' <= closedAt' + RoundIntervalMs]_vars

\* C7 witness: a round opened at the end of a cooldown whose reference price
\* differs from the reference price of a round settled before.
FreshReferencePrice ==
  /\ closedAt /= NoTimer
  /\ currentRound.isActive
  /\ currentRound.startTime = closedAt + RoundIntervalMs
  /\ \E i \in DOMAIN results : results[i].startPrice /= currentRound.startPrice

\* C8: a round is opened only when the current round is closed, so no open
\* round is replaced.
NoOpenWhileOpen ==
  [][lastCall'.op \in {"startNewRound", "setRoundDuration"}
       => ~currentRound.isActive]_vars

\* C9: tie policy.  A result whose end price equals its start price is a win
\* for a down prediction and a lose for an up prediction; for the session's
\* up prediction the balance change is 0 and the win streak is reset to 0.
TiePolicy ==
  /\ \A i \in DOMAIN results :
       IsTie(results[i]) =>
         results[i].status =
           IF results[i].prediction.direction = "down" THEN "win" ELSE "lose"
  /\ \A i \in DOMAIN emitted :
       (/\ emitted[i].type = "result"
        /\ IsTie(emitted[i].result)
        /\ emitted[i].result.prediction.direction = "up")
         => /\ emitted[i].winStreak = 0
            /\ i > 1
            /\ emitted[i - 1].type = "balance_changed"
            /\ emitted[i - 1].change = 0

\* C9 witness: a flat round was settled holding an up and a down prediction.
TieSettled ==
  /\ \E i \in DOMAIN emitted :
       /\ emitted[i].type = "result"
       /\ IsTie(emitted[i].result)
       /\ emitted[i].result.prediction.direction = "up"
  /\ \E i \in DOMAIN emitted :
       /\ emitted[i].type = "result"
       /\ IsTie(emitted[i].result)
       /\ emitted[i].result.prediction.direction = "down"

\* round(amount * changePct / 100) with changePct = |settlement - reference|
\* / reference * 100: the integer nearest to amount * |d| / reference,
\* halves rounded up.
PayoutMagnitude(amount, reference, settlement) ==
  LET whole == (amount * Abs(settlement - reference)) \div reference
      rest == amount * Abs(settlement - reference) - whole * reference
  IN IF 2 * rest >= reference THEN whole + 1 ELSE whole

\* The balance change the payout rule assigns to one result.
SignedPayout(result) ==
  LET magnitude == PayoutMagnitude(result.prediction.amount, result.startPrice,
                                   result.endPrice)
  IN IF result.status = "win" THEN magnitude ELSE 0 - magnitude

RECURSIVE SumOwnPayouts(_)
SumOwnPayouts(rs) ==
  IF rs = <<>> THEN 0
  ELSE (IF Head(rs).prediction.userId = UserId THEN SignedPayout(Head(rs)) ELSE 0)
         + SumOwnPayouts(Tail(rs))

NewResults == SubSeq(results', Len(results) + 1, Len(results'))

\* The win streak after the outcomes rs, in order, from the value streak:
\* a win of the session's subject adds one, a lose of it resets to 0.
RECURSIVE StreakAfter(_, _)
StreakAfter(streak, rs) ==
  IF rs = <<>> THEN streak
  ELSE StreakAfter(IF Head(rs).prediction.userId /= UserId THEN streak
                   ELSE IF Head(rs).status = "win" THEN streak + 1
                   ELSE 0,
                   Tail(rs))

\* C11: streak monotonicity.  Every step leaves winStreak at the value the
\* outcomes it settled for the session's subject give, each win adding
\* exactly one and each lose resetting to 0; a step that settles nothing
\* leaves winStreak unchanged.
StreakMonotonicity ==
  [][winStreak' = StreakAfter(winStreak, NewResults)]_vars

\* C11 witness: one settlement counted a win and then reset on a lose.
StreakResetAfterWin ==
  \E i, j \in DOMAIN emitted :
    /\ i < j
    /\ emitted[i].type = "result" /\ emitted[i].result.status = "win"
    /\ emitted[i].winStreak = 1
    /\ emitted[j].type = "result" /\ emitted[j].result.status = "lose"
    /\ emitted[j].winStreak = 0
    /\ winStreak = 0

\* C12: a makePrediction call with amount <= 0 or amount > balance fails,
\* with the invalid-amount error when the session is running; the call
\* records no prediction, emits no event and leaves balance and winStreak
\* unchanged.
InvalidAmountRejected ==
  [][\A a \in Amounts :
       (/\ lastCall'.op = "makePrediction"
        /\ a <= 0 \/ a > balance
        /\ \E dir \in Directions : makePrediction(dir, a))
         => /\ lastCall'.err /= "none"
            /\ state = "running" => lastCall'.err = "invalid_amount"
            /\ currentRound' = currentRound
            /\ chartData' = chartData
            /\ emitted' = <<>>
            /\ delivered' = <<>>
            /\ balance' = balance
            /\ winStreak' = winStreak]_vars

\* C12 witness: an invalid amount was refused while the session was running
\* and a round was open with a listener registered.
InvalidAmountRefusedInOpenRound ==
  /\ lastCall = Call("makePrediction", "invalid_amount")
  /\ state = "running"
  /\ currentRound.isActive
  /\ eventListeners /= <<>>

\* C13: with the session running and a valid amount, a makePrediction call
\* made while the current round is closed fails with the round-not-open
\* error, records nothing, emits no prediction_made event and leaves the
\* balance unchanged; made while the round is open it succeeds and appends
\* exactly one prediction, of the session's subject, to the current round.
RoundNotOpenRejected ==
  [][\A a \in Amounts :
       (/\ lastCall'.op = "makePrediction"
        /\ state = "running"
        /\ a > 0 /\ a <= balance
        /\ \E dir \in Directions : makePrediction(dir, a))
         => IF currentRound.isActive
              THEN /\ lastCall'.err = "none"
                   /\ Len(currentRound'.predictions) = Len(currentRound.predictions) + 1
                   /\ SubSeq(currentRound'.predictions, 1, Len(currentRound.predictions))
                        = currentRound.predictions
                   /\ currentRound'.predictions[Len(currentRound'.predictions)].amount = a
                   /\ currentRound'.predictions[Len(currentRound'.predictions)].userId = UserId
              ELSE /\ lastCall'.err = "round_not_active"
                   /\ currentRound' = currentRound
                   /\ \A i \in DOMAIN emitted' : emitted'[i].type /= "prediction_made"
                   /\ balance' = balance]_vars

\* C13 witness: a valid bet was refused during the cooldown of a round that
\* had accepted a bet while it was open.
RefusedDuringCooldown ==
  /\ lastCall = Call("makePrediction", "round_not_active")
  /\ state = "running"
  /\ ~currentRound.isActive
  /\ currentRound.predictions /= <<>>

\* C14: start() called while the session is running is a no-op.  It emits no
\* event, leaves the countdown timer and the current round as they are and
\* changes no field of the chart, the service or the session, so the state
\* after start(); start() is the state after start().
StartIsNoOpWhenRunning ==
  [][(lastCall'.op = "start" /\ state = "running")
       => /\ emitted' = <<>>
          /\ delivered' = <<>>
          /\ countdownAt' = countdownAt
          /\ currentRound' = currentRound
          /\ UNCHANGED <<now, chartVars, serviceVars, gameVars>>]_vars

\* C14 witness: start() was called on a running session whose countdown
\* timer, created by an earlier start(), is due.
StartedAgainWhileRunning ==
  /\ lastCall.op = "start"
  /\ state = "running"
  /\ countdownAt = now
  /\ eventListeners /= <<>>

\* C15: GameRound.addPrediction called on a round that has been closed fails
\* with an error; it never returns normally.
RoundClosedError ==
  [][(lastCall'.op = "GameRound.addPrediction" /\ ~currentRound.isActive)
       => lastCall'.err /= "none"]_vars

\* C16: price floor.  The price a step produces is positive and at least the
\* floor of 0.01, for every previous price, volatility, trend (negative ones
\* included) and random draw.
PriceFloorHolds ==
  tick.drawn => (tick.price > 0 /\ tick.price >= PriceFloor * TickScale)

\* C16 witness: a step whose walk went below zero produced the floor price.
FloorApplied ==
  /\ tick.drawn
  /\ tick.prev * (TickScale + tick.volatilityPct * tick.draw + 100 * tick.trendPct) < 0
  /\ tick.price = PriceFloor * TickScale

\* C17: on every tick each subscriber registered at that moment is called
\* exactly once, in subscription order, and is handed the buffer with the
\* new point already appended.
SubscribersNotifiedInOrder ==
  [][lastCall'.op = "generateNextDataPoint"
       => /\ Len(notified') = Len(subscribers)
          /\ \A i \in 1..Len(subscribers) :
               /\ notified'[i].subscriber = subscribers[i]
               /\ notified'[i].data = chartData'
               /\ notified'[i].data[Len(chartData')].timestamp
                    = chartData[Len(chartData)].timestamp + UpdateInterval
               /\ notified'[i].data[Len(chartData')].price = lastPrice']_vars

\* C17 witness: a tick called two different subscribers.
TwoSubscribersNotified ==
  /\ lastCall.op = "generateNextDataPoint"
  /\ Len(notified) = 2
  /\ notified[1].subscriber /= notified[2].subscriber

\* The number of entries of the subscriber list holding callback.
Registered(callback) ==
  Cardinality({ i \in DOMAIN subscribers : subscribers[i] = callback })

\* The number of registrations of callback whose own closure was never called.
NotUnsubscribed(callback) ==
  Cardinality({ c \in unsubscribes : c.callback = callback /\ ~c.called })

\* C18: an unsubscribe closure removes exactly the registration that produced
\* it and is idempotent.  For every callback the list holds one entry for
\* each registration whose own closure has not been called, however often
\* the other closures were called and also when the callback was registered
\* more than once.
UnsubscribeExact ==
  \A callback \in ChartCallbacks : Registered(callback) = NotUnsubscribed(callback)

\* C19: every round opened while the session is running is announced by a
\* round_start event carrying the round's start time and reference price.
RoundStartOnEveryOpen ==
  [][(state = "running" /\ lastCall'.op = "startNewRound")
       => \E i \in DOMAIN emitted' :
            /\ emitted'[i].type = "round_start"
            /\ emitted'[i].timestamp = currentRound'.startTime
            /\ emitted'[i].price = currentRound'.startPrice]_vars

\* C20: a countdown event is emitted only while the session is running and
\* the current round is open.
CountdownOnlyWhileOpen ==
  [][(\E i \in DOMAIN emitted' : emitted'[i].type = "countdown")
       => (state = "running" /\ currentRound.isActive)]_vars

\* The events of one type among events, in order.
EventsOfType(events, type) == SelectSeq(events, LAMBDA e : e.type = type)

\* The results for the session's subject among rs, in order.
OwnResults(rs) == SelectSeq(rs, LAMBDA r : r.prediction.userId = UserId)

\* C21: every mutation of the balance is announced by exactly one
\* balance_changed event.  The balance_changed events of a step, one per
\* outcome settled for the session's subject, chain from the balance before
\* the step to the balance after it, each with change = newBalance minus the
\* balance before it; a step without such an event leaves the balance as it
\* was.
BalanceChangedOnMutation ==
  [][IF emitted' = <<>> /\ results' = results
       THEN balance' = balance
       ELSE LET changes == EventsOfType(emitted', "balance_changed")
            IN /\ Len(changes) = Len(OwnResults(NewResults))
               /\ \A k \in DOMAIN changes :
                    changes[k].newBalance - changes[k].change
                      = IF k = 1 THEN balance ELSE changes[k - 1].newBalance
               /\ balance' = IF changes = <<>> THEN balance
                              ELSE changes[Len(changes)].newBalance]_vars

\* C21 witness: one settlement changed the balance twice, by amounts other
\* than zero.
BalanceChangedTwice ==
  LET changes == EventsOfType(emitted, "balance_changed")
  IN /\ Len(changes) = 2
     /\ changes[1].change /= 0
     /\ changes[2].change /= 0
     /\ changes[2].newBalance = balance

\* C22: a successful makePrediction call emits exactly one prediction_made
\* event, in the call that has recorded the prediction in the round, with the
\* direction and the amount of that prediction; a failed call, and every
\* other step, emits none.
PredictionMadeOnSuccess ==
  [][LET made == EventsOfType(emitted', "prediction_made")
         recorded == currentRound'.predictions
     IN IF lastCall'.op = "makePrediction" /\ lastCall'.err = "none"
          THEN /\ Len(made) = 1
               /\ Len(recorded) = Len(currentRound.predictions) + 1
               /\ made[1].direction = recorded[Len(recorded)].direction
               /\ made[1].amount = recorded[Len(recorded)].amount
               /\ \E dir \in Directions :
                    makePrediction(dir, made[1].amount) /\ made[1].direction = dir
          ELSE made = <<>>]_vars

\* C22 witness: the second bet of a round was announced to a listener.
SecondBetAnnounced ==
  /\ lastCall = Call("makePrediction", "none")
  /\ Len(currentRound.predictions) = 2
  /\ Len(delivered) = 1
  /\ delivered[1][2].type = "prediction_made"
  /\ delivered[1][2].direction = "down"
  /\ delivered[1][2].amount = StakeAmount

\* C23: for each outcome settled for the session's subject the session emits
\* balance_changed and then one result event that carries the outcome and the
\* win streak as already updated by it, which is the value of winStreak read
\* right after; nothing else is emitted in a settlement and no other step
\* emits a result event.
ResultAfterBalanceAndStreak ==
  [][IF emitted' = <<>> /\ results' = results THEN TRUE
     ELSE LET own == OwnResults(NewResults)
          IN IF own = <<>>
               THEN EventsOfType(emitted', "result") = <<>>
               ELSE /\ Len(emitted') = 2 * Len(own)
                    /\ \A k \in DOMAIN own :
                         /\ emitted'[2 * k - 1].type = "balance_changed"
                         /\ emitted'[2 * k].type = "result"
                         /\ emitted'[2 * k].result = own[k]
                         /\ emitted'[2 * k].winStreak
                              = StreakAfter(winStreak, SubSeq(own, 1, k))
                    /\ emitted'[Len(emitted')].winStreak = winStreak']_vars

\* C23 witness: a listener was handed balance_changed and then the result of
\* a win carrying the streak the win produced.
WinAnnouncedWithNewStreak ==
  /\ Len(delivered) = 2
  /\ delivered[1][2].type = "balance_changed"
  /\ delivered[2][2].type = "result"
  /\ delivered[2][2].result.status = "win"
  /\ delivered[2][2].winStreak = 1
  /\ winStreak = 1

\* C24: the events of a step are delivered within the step, event by event in
\* emission order and for each event listener by listener in registration
\* order, to the listeners registered before the step and to nobody else;
\* registering a listener delivers nothing to it.
SynchronousOrderedDelivery ==
  [][LET n == Len(eventListeners)
     IN /\ Len(delivered') = n * Len(emitted')
        /\ \A k \in DOMAIN delivered' :
             /\ delivered'[k][1] = eventListeners[((k - 1) % n) + 1]
             /\ delivered'[k][2] = emitted'[((k - 1) \div n) + 1]
        /\ lastCall'.op = "addEventListener" => delivered' = <<>>]_vars

\* C24 witness: a settlement delivered its two events, in turn, to each of two
\* registered listeners.
TwoListenersTwoEvents ==
  /\ Len(eventListeners) = 2
  /\ Len(delivered) = 4
  /\ delivered[1][1] = eventListeners[1]
  /\ delivered[2][1] = eventListeners[2]
  /\ delivered[1][2].type = "balance_changed"
  /\ delivered[3][2].type = "result"

\* C25: a closed round stays as it is.  Unless a new round is stored in its
\* place, the current round once closed is never active again and keeps its
\* sequence of predictions, whatever is called on it; close() applied to a
\* closed round returns it unchanged.
ClosedRoundImmutable ==
  [][/\ (~currentRound.isActive
           /\ lastCall'.op \notin {"startNewRound", "setRoundDuration"})
          => currentRound' = currentRound
     /\ ~currentRound'.isActive => close(currentRound') = currentRound']_vars

\* C25 witness: addPrediction was called on a closed round that holds a
\* prediction.
AddPredictionOnClosedRound ==
  /\ lastCall.op = "GameRound.addPrediction"
  /\ ~currentRound.isActive
  /\ currentRound.predictions /= <<>>

\* C26: a settlement appends one result per prediction of the round it
\* closes, in submission order, and the result events reach the session in
\* that same order; the history only grows, every step keeping the results
\* it found as a prefix, and only a settlement appends.
ResultsInSubmissionOrder ==
  [][/\ Len(results') >= Len(results)
     /\ SubSeq(results', 1, Len(results)) = results
     /\ IF lastCall'.op = "endCurrentRound"
          THEN /\ Len(NewResults) = Len(currentRound.predictions)
               /\ \A i \in DOMAIN NewResults :
                    NewResults[i].prediction = currentRound.predictions[i]
               /\ LET announced == EventsOfType(emitted', "result")
                  IN /\ Len(announced) = Len(OwnResults(NewResults))
                     /\ \A i \in DOMAIN announced :
                          announced[i].result = OwnResults(NewResults)[i]
          ELSE results' = results]_vars

\* C26 witness: a settlement appended and announced the results of two bets
\* of opposite directions, the earlier bet first.
TwoResultsInOrder ==
  /\ lastCall.op = "endCurrentRound"
  /\ Len(results) = 2
  /\ results[1].prediction.id = 1
  /\ results[2].prediction.id = 2
  /\ results[1].prediction.direction /= results[2].prediction.direction
  /\ Len(EventsOfType(emitted, "result")) = 2

\* C27: every result of a settlement carries the reference price recorded
\* when the round was opened and the one price getCurrentPrice() gives when
\* the round is closed, and its status is decided by these two prices and
\* the direction alone: up wins on a rise, down wins otherwise.
SettledAgainstRoundPrices ==
  [][lastCall'.op = "endCurrentRound"
       => LET settlement == getCurrentPrice(chartData, lastPrice)
          IN \A i \in DOMAIN NewResults :
               /\ NewResults[i].startPrice = currentRound.startPrice
               /\ NewResults[i].endPrice = settlement
               /\ NewResults[i].status =
                    IF (NewResults[i].prediction.direction = "up")
                         = (settlement > currentRound.startPrice)
                      THEN "win" ELSE "lose"]_vars

\* C27 witness: two bets of one round were settled against one pair of
\* prices, a reference price other than the initial price and a lower
\* settlement price.
TwoBetsOnePricePair ==
  /\ lastCall.op = "endCurrentRound"
  /\ Len(results) = 2
  /\ results[1].startPrice = results[2].startPrice
  /\ results[1].endPrice = results[2].endPrice
  /\ results[1].startPrice /= InitialPrice
  /\ results[1].endPrice < results[1].startPrice
  /\ currentRound.startPrice = results[1].startPrice

\* C28: the reward recorded on a result (kept in tenths) equals the signed
\* change applied to the balance for it, the change of the balance_changed
\* event emitted just before its result event.
RewardEqualsBalanceChange ==
  \A i \in DOMAIN emitted :
    emitted[i].type = "result"
      => /\ i > 1
         /\ emitted[i - 1].type = "balance_changed"
         /\ emitted[i].result.reward = 10 * emitted[i - 1].change

\* C29: balance, winStreak and the results history change on the settlement
\* path only.  Every step other than the closing of a round (start, stop,
\* a makePrediction call that succeeds or fails, a price tick, a countdown
\* tick, the opening of a round, listener registration) leaves all three
\* unchanged; a successful bet does not take the stake from the balance.
SessionStateFrame ==
  [][lastCall'.op /= "endCurrentRound"
       => /\ balance' = balance
          /\ winStreak' = winStreak
          /\ results' = results]_vars

\* C29 witness: a bet was accepted after an earlier settlement had changed
\* the balance, and the balance is the one that settlement left.
BetAcceptedBalanceKept ==
  /\ lastCall = Call("makePrediction", "none")
  /\ results /= <<>>
  /\ balance /= InitialBalance
  /\ currentRound.predictions /= <<>>
  /\ balance = InitialBalance + SumOwnPayouts(results)

\* C30: an outcome of another subject leaves the session alone.  A settlement
\* whose outcomes all belong to other subjects leaves balance and winStreak
\* unchanged and emits no event, and no result or balance_changed event is
\* ever emitted for an outcome of another subject.
OtherSubjectIgnored ==
  [][/\ (NewResults /= <<>> /\ OwnResults(NewResults) = <<>>)
          => /\ balance' = balance
             /\ winStreak' = winStreak
             /\ emitted' = <<>>
             /\ delivered' = <<>>
     /\ \A i \in DOMAIN emitted' :
          emitted'[i].type = "result"
            => emitted'[i].result.prediction.userId = UserId]_vars

\* C30 witness: a round holding a bet of another subject was settled at a
\* price other than its reference price, and the balance is the initial one.
OtherSubjectSettled ==
  /\ lastCall.op = "endCurrentRound"
  /\ results /= <<>>
  /\ results[Len(results)].prediction.userId = OtherUserId
  /\ results[Len(results)].prediction.id \in PredictionIds(currentRound)
  /\ results[Len(results)].endPrice /= results[Len(results)].startPrice
  /\ balance = InitialBalance

\* The points of a buffer are in non-decreasing order of timestamp.
OrderedByTimestamp(data) ==
  \A i \in 1..(Len(data) - 1) : data[i].timestamp <= data[i + 1].timestamp

\* C32: the price buffer never holds more than its capacity, and a tick on a
\* full buffer evicts exactly the oldest point: the points kept are the old
\* ones but the first, in their order, followed by the new point.
BufferBoundedOldestEvicted ==
  [][/\ Len(chartData) <= MaxDataPoints
     /\ Len(chartData') <= MaxDataPoints
     /\ (lastCall'.op = "generateNextDataPoint" /\ Len(chartData) = MaxDataPoints)
          => /\ Len(chartData') = MaxDataPoints
             /\ SubSeq(chartData', 1, MaxDataPoints - 1) = Tail(chartData)
             /\ chartData'[MaxDataPoints].price = lastPrice'
             /\ chartData'[MaxDataPoints] \notin
                  { chartData[i] : i \in DOMAIN chartData }]_vars

\* C32 witness: the buffer is full after a tick and every point the
\* constructor put in has been evicted.
InitialPointsEvicted ==
  /\ lastCall.op = "generateNextDataPoint"
  /\ Len(chartData) = MaxDataPoints
  /\ chartData[1].timestamp > 0

\* C33: the buffer is ordered by timestamp in every state, and a tick stamps
\* the point it appends with the previous latest timestamp plus the fixed
\* time step current at that tick, also after the update interval changed.
TimestampsOrdered ==
  [][/\ OrderedByTimestamp(chartData)
     /\ OrderedByTimestamp(chartData')
     /\ lastCall'.op = "generateNextDataPoint"
          => chartData'[Len(chartData')].timestamp
               = chartData[Len(chartData)].timestamp + updateInterval]_vars

\* C33 witness: a tick has appended a point after the update interval was
\* changed.
TickAfterIntervalChange ==
  /\ lastCall.op = "generateNextDataPoint"
  /\ updateInterval /= UpdateInterval
  /\ chartData[Len(chartData)].timestamp
       = chartData[Len(chartData) - 1].timestamp + updateInterval

\* C34: getCurrentPrice() answers with the point at index floor(0.75 * n) - 1
\* (counted from 0) of a buffer of n points; with n <= 1, where no point has
\* that index, it answers with the latest point, or with the last price when
\* the buffer is empty.
CurrentPriceIsLookback ==
  lookup.asked =>
    LET n == Len(lookup.data)
    IN /\ \A k \in 0..(n - 1) :
            (4 * (k + 1) <= 3 * n /\ 3 * n < 4 * (k + 2))
              => lookup.price = lookup.data[k + 1].price
       /\ n = 1 => lookup.price = lookup.data[1].price
       /\ n = 0 => lookup.price = lookup.fallback
       /\ n >= 2 => \E k \in 0..(n - 2) : 4 * (k + 1) <= 3 * n /\ 3 * n < 4 * (k + 2)

\* C34 witness: the price was asked of a buffer of four points whose third
\* point differs in price from its fourth, and the answer is the third.
LookbackNotFreshest ==
  /\ lookup.asked
  /\ Len(lookup.data) = 4
  /\ lookup.data[3].price /= lookup.data[4].price
  /\ lookup.price = lookup.data[3].price

\* C39: the session state is one of waiting, running and finished; start()
\* leaves the session running, from waiting and from finished; stop() takes
\* a running session to finished and changes nothing of any other; nothing
\* but start() and stop() changes the state, and waiting is never entered
\* again; makePrediction on a session that is not running fails with the
\* not-running error and records nothing.
SessionLifecycle ==
  [][/\ state \in {"waiting", "running", "finished"}
     /\ state' \in {"waiting", "running", "finished"}
     /\ state' /= state => lastCall'.op \in {"start", "stop"}
     /\ state' = "waiting" => state = "waiting"
     /\ lastCall'.op = "start" => state' = "running"
     /\ lastCall'.op = "stop" =>
          IF state = "running"
            THEN state' = "finished"
            ELSE UNCHANGED <<now, chartVars, serviceVars, gameVars, historyVars>>
     /\ (lastCall'.op = "makePrediction" /\ state /= "running")
          => /\ lastCall'.err = "not_running"
             /\ emitted' = <<>>
             /\ UNCHANGED <<chartVars, serviceVars, gameVars>>]_vars

\* C39 witness: a session that was started and stopped refused a bet while
\* a round was open.
RefusedAfterStop ==
  /\ lastCall = Call("makePrediction", "not_running")
  /\ state = "finished"
  /\ currentRound.isActive

\* C37: no overlapping timers.  At most one timer made by startGameCycle is
\* active, and it is the one held in _intervalId; at most one timer made by
\* startCountdown is active, and it is the one held in _countdownIntervalId;
\* at most one startNewRound timeout is pending.
NoOverlappingTimers ==
  /\ cycleTimers = (IF cycleAt /= NoTimer THEN 1 ELSE 0)
  /\ countdownTimers = (IF countdownAt /= NoTimer THEN 1 ELSE 0)
  /\ Cardinality(cooldownAt) <= 1

\* C37 witness: setRoundDuration has restarted the cycle timer while a
\* startNewRound timeout was pending and the countdown timer was active.
RestartedWhileCooldownPending ==
  /\ lastCall.op = "setRoundDuration"
  /\ cooldownAt /= {}
  /\ countdownAt /= NoTimer
  /\ cycleAt /= NoTimer

\* The number of calls in a trace of listener calls that hand event to
\* listener.
Deliveries(calls, listener, event) ==
  Cardinality({ i \in DOMAIN calls : calls[i] = <<listener, event>> })

\* C38: fan-out is robust to re-entrant unsubscription.  When a step emits
\* one event, every listener registered when it is emitted, a listener that
\* unsubscribes itself during the delivery included, is called with that
\* event exactly once.
FanOutRobust ==
  [][Len(emitted') = 1 =>
       \A i \in DOMAIN eventListeners :
         Deliveries(delivered', eventListeners[i], emitted'[1]) = 1]_vars

SettledStatus(direction, reference, settlement) ==
  IF (settlement > reference /\ direction = "up")
       \/ (settlement <= reference /\ direction = "down")
    THEN "win" ELSE "lose"

\* The balance change the settlement rule gives a bet: a function of the
\* direction, the amount and the two prices.
SettledChange(direction, amount, reference, settlement) ==
  IF SettledStatus(direction, reference, settlement) = "win"
    THEN PayoutMagnitude(amount, reference, settlement)
    ELSE 0 - PayoutMagnitude(amount, reference, settlement)

\* The outcome sequence for a ledger settled between two prices, stamped t.
SettledOutcomes(predictions, reference, settlement, t) ==
  [i \in DOMAIN predictions |->
     [prediction |-> predictions[i],
      startPrice |-> reference,
      endPrice |-> settlement,
      status |-> SettledStatus(predictions[i].direction, reference, settlement),
      reward |-> IF SettledStatus(predictions[i].direction, reference, settlement) = "win"
                   THEN predictions[i].amount * WinMultiplierTenths ELSE 0,
      timestamp |-> t]]

RECURSIVE SumSettledChanges(_, _, _)
SumSettledChanges(predictions, reference, settlement) ==
  IF predictions = <<>> THEN 0
  ELSE SettledChange(Head(predictions).direction, Head(predictions).amount,
                     reference, settlement)
         + SumSettledChanges(Tail(predictions), reference, settlement)

BalanceNeverNegative == balance >= 0

====
